---- MODULE Spec2Model ----
(***************************************************************************)
(* Model of api/production_main.py: the API-key gate (APIKeyAuth.          *)
(* verify_api_key), its shared rate-limit and usage state, and the         *)
(* endpoint handlers that run behind it.                                   *)
(*                                                                         *)
(* verify_api_key is a plain `def` dependency, so the framework runs it on *)
(* a worker thread per request: its statements interleave with those of    *)
(* other requests.  Every access to shared state is one step of a worker.  *)
(* The `async def` handlers contain no await and therefore run one at a    *)
(* time on the event loop, but interleave with the workers.                *)
(*                                                                         *)
(* Time is an integer number of clock units, Resolution units per second.  *)
(***************************************************************************)
EXTENDS Integers, Sequences, FiniteSets, TLC

(* ------------------------------ bounds --------------------------------- *)
NumThreads  == 2
MaxCalls    == 2
MaxSeqCalls == 2
MaxGateCalls == 4
MaxClientCalls == 3
MaxWindows  == 1
MaxNames    == 1
MaxUsps     == 2
RateBase    == 1
Resolution  == 1000

(* ------------------------- program constants --------------------------- *)
WINDOW      == 60
MAX_FILES   == 10
RETRY_AFTER == 60

Threads == 1..NumThreads

DemoKey       == "demo-key-12345"
PremiumKey    == "premium-key-67890"
EnterpriseKey == "enterprise-key-abc123"
InvalidToken  == "not-a-key"

\* API_KEYS as written in the source.
ProductionKeys ==
    (DemoKey :> [tier |-> "demo", requests_per_minute |-> 60,
                 max_addresses_per_request |-> 100,
                 features |-> {"name_validation", "address_validation"}])
 @@ (PremiumKey :> [tier |-> "premium", requests_per_minute |-> 300,
                 max_addresses_per_request |-> 1000,
                 features |-> {"name_validation", "address_validation",
                               "batch_processing"}])
 @@ (EnterpriseKey :> [tier |-> "enterprise", requests_per_minute |-> 1000,
                 max_addresses_per_request |-> 5000,
                 features |-> {"name_validation", "address_validation",
                               "batch_processing", "priority_support"}])

\* The same registry with the per-minute limits scaled down to RateBase,
\* RateBase + 1, RateBase + 2 (order of the tiers kept), so that a handful
\* of requests reaches a limit.
ScaledRate ==
    (DemoKey :> RateBase) @@ (PremiumKey :> RateBase + 1)
 @@ (EnterpriseKey :> RateBase + 2)

ScaledKeys ==
    [k \in DOMAIN ProductionKeys |->
        [ProductionKeys[k] EXCEPT !.requests_per_minute = ScaledRate[k]]]

\* Bearer tokens presented by callers: the keys of two tiers, one without
\* and one with batch_processing, and a token that is no key.
Tokens == {DemoKey, PremiumKey, InvalidToken}

\* Tokens of the concurrent specification: one caller's key, used by
\* several requests at once, and a token that is no key.
BurstTokens == {DemoKey, InvalidToken}

Endpoints == {"api_info", "validate_names", "validate_address",
              "batch_validate_addresses", "usage_stats"}

\* Feature each endpoint's handler requires ("" when it checks none).
RequiredFeature(e) ==
    CASE e = "validate_names"           -> "name_validation"
      [] e = "validate_address"         -> "address_validation"
      [] e = "batch_validate_addresses" -> "batch_processing"
      [] OTHER                          -> ""

\* The default value of usage_stats (the defaultdict's factory).
NewStats == [total_requests |-> 0, successful_requests |-> 0,
             failed_requests |-> 0, addresses_processed |-> 0,
             names_processed |-> 0]

\* No response yet, and no request body.
NoResponse == [kind |-> "none"]
NoBody == [nfiles |-> 0, csv_ok |-> TRUE, records |-> 0, usps |-> << >>,
           available |-> FALSE, raised |-> FALSE]

\* AddressValidatorClient.__init__, lines 75-78 of the client SDK: the
\* usage counters of a new client.
NewClient == [total_requests |-> 0, successful_requests |-> 0,
              failed_requests |-> 0]

\* No answer of session.request in hand.
NoAnswer == [kind |-> "none"]

VARIABLES
    API_KEYS,            \* the key registry (read only)
    validation_service,  \* TRUE when the global holds a ValidationService
    started,             \* startup_event has run
    clock,               \* time.time(), in clock units
    request_counts,      \* token -> list of timestamps (entries made lazily)
    usage_stats,         \* token -> reference to its counters dict
    stats_objs,          \* the counters dicts ever made, by reference
    pc, token, endpoint, \* per request task: position and inputs
    now,                 \* local `now`
    idx, acc,            \* the list comprehension's cursor and result
    sref, tmp,           \* counters dict in hand, value read for `+= 1`
    current_usage,       \* the returned auth_data["current_usage"]
    items,               \* number of names / addresses in the request body
    status,              \* HTTP status of the finished request (0: none)
    rate_limit,          \* local `rate_limit` (line 125)
    body,                \* the request body and the collaborators' answers
    business,            \* collaborator operations the request has invoked
    response,            \* the error detail or response content being sent
    entry_stats,         \* history: the key's counters when the request came
    snapshot,            \* history: the counters as the handler read them
    admitted,            \* history: timestamps of admitted checks, per key
    rejected,            \* history: number of 429s, per key
    refused,             \* history: the times (`now`) of the 429s, per key
    calls,               \* history: number of requests received
    client,              \* AddressValidatorClient: its three usage counters
    client_pc,           \* position of the client's _make_request call
    client_response      \* what session.request gave that call

shared == <<API_KEYS, validation_service, started, clock, request_counts,
            usage_stats, stats_objs>>
locals == <<pc, token, endpoint, now, idx, acc, sref, tmp, current_usage,
            items, status, rate_limit, body, business, response,
            entry_stats, snapshot>>
\* What a handler and the response add to a request.
handled == <<body, business, response, snapshot>>
hist   == <<admitted, rejected, refused, calls>>
\* The client SDK's object and its call under way.
sdk    == <<client, client_pc, client_response>>
vars   == <<shared, locals, hist, sdk>>

WindowUnits == WINDOW * Resolution
MaxClock    == MaxWindows * (WINDOW + 1) * Resolution

\* Fresh with the boundary kept: now - req_time <= 60.
FreshInclusive(n, req_time) == n - req_time <= WindowUnits

\* Fresh with the operands swapped: req_time - now < 60.
FreshSwapped(n, req_time) == req_time - n < WindowUnits

\* `now - req_time < 60`: the test of the comprehension at line 122.
Fresh(n, req_time) == n - req_time < WindowUnits

\* request_counts[k] of a defaultdict(list): the stored list, made on a miss.
Touch(rc, k) == IF k \in DOMAIN rc THEN rc ELSE rc @@ (k :> <<>>)

RegisteredKeys == DOMAIN ProductionKeys

InitCommon ==
    /\ validation_service = FALSE
    /\ started = FALSE
    /\ clock = 0
    /\ request_counts = << >>
    /\ usage_stats = << >>
    /\ stats_objs = << >>
    /\ pc = [t \in Threads |-> "idle"]
    /\ token = [t \in Threads |-> ""]
    /\ endpoint = [t \in Threads |-> ""]
    /\ now = [t \in Threads |-> 0]
    /\ idx = [t \in Threads |-> 0]
    /\ acc = [t \in Threads |-> << >>]
    /\ sref = [t \in Threads |-> 0]
    /\ tmp = [t \in Threads |-> 0]
    /\ current_usage = [t \in Threads |-> 0]
    /\ items = [t \in Threads |-> 0]
    /\ status = [t \in Threads |-> 0]
    /\ rate_limit = [t \in Threads |-> 0]
    /\ body = [t \in Threads |-> NoBody]
    /\ business = [t \in Threads |-> {}]
    /\ response = [t \in Threads |-> NoResponse]
    /\ entry_stats = [t \in Threads |-> NewStats]
    /\ snapshot = [t \in Threads |-> NewStats]
    /\ admitted = [k \in RegisteredKeys |-> << >>]
    /\ rejected = [k \in RegisteredKeys |-> 0]
    /\ refused = [k \in RegisteredKeys |-> {}]
    /\ calls = 0
    /\ client = NewClient
    /\ client_pc = "idle"
    /\ client_response = NoAnswer

Init == InitCommon /\ API_KEYS = ScaledKeys

(* ------------------------------ startup -------------------------------- *)
\* startup_event: ValidationService() either constructs or raises (logged).
\* Requests are served once it has run.
Startup ==
    /\ ~started
    /\ started' = TRUE
    /\ validation_service' \in BOOLEAN
    /\ UNCHANGED <<sdk, API_KEYS, clock, request_counts, usage_stats, stats_objs,
                   locals, hist>>

(* --------------------------- verify_api_key ---------------------------- *)
Free(t) == pc[t] = "idle"

\* The counters stored under token k now (the default when none are).
StatsOf(k) ==
    IF k \in DOMAIN usage_stats THEN stats_objs[usage_stats[k]] ELSE NewStats

\* Leave the request with HTTP status s; the task's working values are
\* dropped.
Finish(t, s) ==
    /\ pc' = [pc EXCEPT ![t] = "done"]
    /\ status' = [status EXCEPT ![t] = s]
    /\ idx' = [idx EXCEPT ![t] = 0]
    /\ acc' = [acc EXCEPT ![t] = << >>]
    /\ sref' = [sref EXCEPT ![t] = 0]
    /\ tmp' = [tmp EXCEPT ![t] = 0]
    /\ items' = [items EXCEPT ![t] = 0]

\* CheckKey answering an unknown token with 403 instead of 401.
CheckKeyForbidden(t, k, e, d) ==
    /\ started
    /\ Free(t)
    /\ calls' = calls + 1
    /\ token' = [token EXCEPT ![t] = k]
    /\ IF k \notin DOMAIN API_KEYS
         THEN /\ d = 0
              /\ Finish(t, 403)
              /\ endpoint' = [endpoint EXCEPT ![t] = e]
              /\ UNCHANGED <<now, clock, request_counts>>
         ELSE /\ clock' = clock + d
              /\ now' = [now EXCEPT ![t] = clock + d]
              /\ request_counts' = Touch(request_counts, k)
              /\ idx' = [idx EXCEPT ![t] = 1]
              /\ pc' = [pc EXCEPT ![t] = "prune_iter"]
              /\ UNCHANGED <<endpoint, status, acc, sref, tmp, items>>
    /\ entry_stats' = [entry_stats EXCEPT ![t] = StatsOf(k)]
    /\ UNCHANGED <<sdk, API_KEYS, validation_service, started, usage_stats,
                   stats_objs, current_usage, admitted, rejected, refused,
                   rate_limit, handled>>

\* CheckKey fetching request_counts[api_key] before it tests the token.
CheckKeyTouchFirst(t, k, e, d) ==
    /\ started
    /\ Free(t)
    /\ calls' = calls + 1
    /\ token' = [token EXCEPT ![t] = k]
    /\ request_counts' = Touch(request_counts, k)
    /\ IF k \notin DOMAIN API_KEYS
         THEN /\ d = 0
              /\ Finish(t, 401)
              /\ endpoint' = [endpoint EXCEPT ![t] = e]
              /\ UNCHANGED <<now, clock>>
         ELSE /\ clock' = clock + d
              /\ now' = [now EXCEPT ![t] = clock + d]
              /\ idx' = [idx EXCEPT ![t] = 1]
              /\ pc' = [pc EXCEPT ![t] = "prune_iter"]
              /\ UNCHANGED <<endpoint, status, acc, sref, tmp, items>>
    /\ entry_stats' = [entry_stats EXCEPT ![t] = StatsOf(k)]
    /\ UNCHANGED <<sdk, API_KEYS, validation_service, started, usage_stats,
                   stats_objs, current_usage, admitted, rejected, refused,
                   rate_limit, handled>>

\* Lines 103-119.  A request with bearer token k enters verify_api_key, d
\* clock units after the previous reading of the clock.  An unknown token
\* is refused at once (the route e it was sent to is kept with the
\* response).  Otherwise `now` is read and the key's list is fetched from
\* request_counts, which makes it on a miss.  Nothing between the entry and
\* line 119 is visible to another task, so this is one step.
CheckKey(t, k, e, d) ==
    /\ started
    /\ Free(t)
    /\ calls' = calls + 1
    /\ token' = [token EXCEPT ![t] = k]
    /\ IF k \notin DOMAIN API_KEYS
         THEN /\ d = 0
              /\ Finish(t, 401)
              /\ endpoint' = [endpoint EXCEPT ![t] = e]
              /\ UNCHANGED <<now, clock, request_counts>>
         ELSE /\ clock' = clock + d
              /\ now' = [now EXCEPT ![t] = clock + d]
              /\ request_counts' = Touch(request_counts, k)
              /\ idx' = [idx EXCEPT ![t] = 1]
              /\ pc' = [pc EXCEPT ![t] = "prune_iter"]
              /\ UNCHANGED <<endpoint, status, acc, sref, tmp, items>>
    /\ entry_stats' = [entry_stats EXCEPT ![t] = StatsOf(k)]
    /\ UNCHANGED <<sdk, API_KEYS, validation_service, started, usage_stats,
                   stats_objs, current_usage, admitted, rejected, refused,
                   rate_limit, handled>>

\* Line 122, right-hand side: one turn of the comprehension's loop over the
\* live list.
PruneIter(t) ==
    /\ pc[t] = "prune_iter"
    /\ LET w == request_counts[token[t]] IN
         IF idx[t] <= Len(w)
           THEN /\ acc' = [acc EXCEPT ![t] =
                             IF Fresh(now[t], w[idx[t]])
                               THEN Append(acc[t], w[idx[t]]) ELSE acc[t]]
                /\ idx' = [idx EXCEPT ![t] = idx[t] + 1]
                /\ pc' = pc
           ELSE /\ pc' = [pc EXCEPT ![t] = "prune_store"]
                /\ idx' = [idx EXCEPT ![t] = 0]
                /\ acc' = acc
    /\ UNCHANGED <<sdk, shared, token, endpoint, now, sref, tmp, current_usage,
                   items, status, hist, rate_limit, handled, entry_stats>>

\* PruneStore with the filtered list thrown away (no slice assignment).
PruneStoreDropped(t) ==
    /\ pc[t] = "prune_store"
    /\ request_counts' = request_counts
    /\ acc' = [acc EXCEPT ![t] = << >>]
    /\ pc' = [pc EXCEPT ![t] = "check_limit"]
    /\ UNCHANGED <<sdk, API_KEYS, validation_service, started, clock, usage_stats,
                   stats_objs, token, endpoint, now, idx, sref, tmp,
                   current_usage, items, status, hist, rate_limit, handled,
                   entry_stats>>

\* PruneStore as a fixed bucket: once an entry has expired the whole
\* window is emptied.
PruneStoreBucket(t) ==
    /\ pc[t] = "prune_store"
    /\ request_counts' = [request_counts EXCEPT ![token[t]] =
                             IF Len(acc[t]) < Len(@) THEN << >> ELSE acc[t]]
    /\ acc' = [acc EXCEPT ![t] = << >>]
    /\ pc' = [pc EXCEPT ![t] = "check_limit"]
    /\ UNCHANGED <<sdk, API_KEYS, validation_service, started, clock, usage_stats,
                   stats_objs, token, endpoint, now, idx, sref, tmp,
                   current_usage, items, status, hist, rate_limit, handled,
                   entry_stats>>

\* Line 122, the slice assignment user_requests[:] = ...
PruneStore(t) ==
    /\ pc[t] = "prune_store"
    /\ request_counts' = [request_counts EXCEPT ![token[t]] = acc[t]]
    /\ acc' = [acc EXCEPT ![t] = << >>]
    /\ pc' = [pc EXCEPT ![t] = "check_limit"]
    /\ UNCHANGED <<sdk, API_KEYS, validation_service, started, clock, usage_stats,
                   stats_objs, token, endpoint, now, idx, sref, tmp,
                   current_usage, items, status, hist, rate_limit, handled,
                   entry_stats>>

\* CheckLimit with one window for all keys: the entries of every key's list
\* are counted.
CheckLimitGlobal(t) ==
    /\ pc[t] = "check_limit"
    /\ LET limit == API_KEYS[token[t]].requests_per_minute
           all == UNION {{<<k, i>> : i \in DOMAIN request_counts[k]} :
                            k \in DOMAIN request_counts}
       IN
         /\ rate_limit' = [rate_limit EXCEPT ![t] = limit]
         /\ pc' = [pc EXCEPT ![t] =
                      IF Cardinality(all) >= limit THEN "reject" ELSE "append"]
    /\ UNCHANGED <<sdk, shared, token, endpoint, now, idx, acc, sref, tmp,
                   current_usage, items, status, hist, handled, entry_stats>>

\* CheckLimit with `>` for `>=`.
CheckLimitOffByOne(t) ==
    /\ pc[t] = "check_limit"
    /\ LET limit == API_KEYS[token[t]].requests_per_minute IN
         /\ rate_limit' = [rate_limit EXCEPT ![t] = limit]
         /\ pc' = [pc EXCEPT ![t] =
                      IF Len(request_counts[token[t]]) > limit
                        THEN "reject" ELSE "append"]
    /\ UNCHANGED <<sdk, shared, token, endpoint, now, idx, acc, sref, tmp,
                   current_usage, items, status, hist, handled, entry_stats>>

\* Lines 125-126: rate_limit is read from the registry and the length of
\* the pruned list is tested against it.
CheckLimit(t) ==
    /\ pc[t] = "check_limit"
    /\ LET limit == API_KEYS[token[t]].requests_per_minute IN
         /\ rate_limit' = [rate_limit EXCEPT ![t] = limit]
         /\ pc' = [pc EXCEPT ![t] =
                      IF Len(request_counts[token[t]]) >= limit
                        THEN "reject" ELSE "append"]
    /\ UNCHANGED <<sdk, shared, token, endpoint, now, idx, acc, sref, tmp,
                   current_usage, items, status, hist, handled, entry_stats>>

\* Reject reporting the length the list would have had with this request.
RejectCountsItself(t, e) ==
    /\ pc[t] = "reject"
    /\ response' = [response EXCEPT ![t] =
                       [kind |-> "rate_limited", retry_after |-> RETRY_AFTER,
                        current_usage |-> Len(request_counts[token[t]]) + 1,
                        limit |-> rate_limit[t]]]
    /\ Finish(t, 429)
    /\ endpoint' = [endpoint EXCEPT ![t] = e]
    /\ rejected' = [rejected EXCEPT ![token[t]] = @ + 1]
    /\ refused' = [refused EXCEPT ![token[t]] = @ \cup {now[t]}]
    /\ UNCHANGED <<sdk, shared, token, now, current_usage, admitted, calls,
                   rate_limit, body, business, snapshot, entry_stats>>

\* Reject that records the refused attempt in the window.
RejectAppends(t, e) ==
    /\ pc[t] = "reject"
    /\ response' = [response EXCEPT ![t] =
                       [kind |-> "rate_limited", retry_after |-> RETRY_AFTER,
                        current_usage |-> Len(request_counts[token[t]]),
                        limit |-> rate_limit[t]]]
    /\ request_counts' = [request_counts EXCEPT ![token[t]] =
                             Append(@, now[t])]
    /\ Finish(t, 429)
    /\ endpoint' = [endpoint EXCEPT ![t] = e]
    /\ rejected' = [rejected EXCEPT ![token[t]] = @ + 1]
    /\ refused' = [refused EXCEPT ![token[t]] = @ \cup {now[t]}]
    /\ UNCHANGED <<sdk, API_KEYS, validation_service, started, clock, usage_stats,
                   stats_objs, token, now, current_usage, admitted, calls,
                   rate_limit, body, business, snapshot, entry_stats>>

\* Lines 127-136: the 429 and its detail, which reads len(user_requests)
\* again (e: the route the refused request was sent to).
Reject(t, e) ==
    /\ pc[t] = "reject"
    /\ response' = [response EXCEPT ![t] =
                       [kind |-> "rate_limited", retry_after |-> RETRY_AFTER,
                        current_usage |-> Len(request_counts[token[t]]),
                        limit |-> rate_limit[t]]]
    /\ Finish(t, 429)
    /\ endpoint' = [endpoint EXCEPT ![t] = e]
    /\ rejected' = [rejected EXCEPT ![token[t]] = @ + 1]
    /\ refused' = [refused EXCEPT ![token[t]] = @ \cup {now[t]}]
    /\ UNCHANGED <<sdk, shared, token, now, current_usage, admitted, calls,
                   rate_limit, body, business, snapshot, entry_stats>>

\* AppendNow for a window that holds each timestamp once (a set of times).
AppendNowDedup(t) ==
    /\ pc[t] = "append"
    /\ request_counts' = [request_counts EXCEPT ![token[t]] =
                             IF \E i \in DOMAIN @ : @[i] = now[t]
                               THEN @ ELSE Append(@, now[t])]
    /\ admitted' = [admitted EXCEPT ![token[t]] = Append(@, now[t])]
    /\ pc' = [pc EXCEPT ![t] = "stats_get"]
    /\ UNCHANGED <<sdk, API_KEYS, validation_service, started, clock, usage_stats,
                   stats_objs, token, endpoint, now, idx, acc, sref, tmp,
                   current_usage, items, status, rejected, refused, calls,
                   rate_limit, handled, entry_stats>>

\* Line 139: user_requests.append(now)
AppendNow(t) ==
    /\ pc[t] = "append"
    /\ request_counts' = [request_counts EXCEPT ![token[t]] =
                             Append(@, now[t])]
    /\ admitted' = [admitted EXCEPT ![token[t]] = Append(@, now[t])]
    /\ pc' = [pc EXCEPT ![t] = "stats_get"]
    /\ UNCHANGED <<sdk, API_KEYS, validation_service, started, clock, usage_stats,
                   stats_objs, token, endpoint, now, idx, acc, sref, tmp,
                   current_usage, items, status, rejected, refused, calls,
                   rate_limit,
                   handled, entry_stats>>

\* Line 140, usage_stats[api_key]: a hit yields the stored dict; a miss
\* enters the factory (Python code, so the thread may be switched out here).
StatsGet(t) ==
    /\ pc[t] = "stats_get"
    /\ IF token[t] \in DOMAIN usage_stats
         THEN /\ sref' = [sref EXCEPT ![t] = usage_stats[token[t]]]
              /\ pc' = [pc EXCEPT ![t] = "stats_read"]
         ELSE /\ pc' = [pc EXCEPT ![t] = "stats_missing"]
              /\ sref' = sref
    /\ UNCHANGED <<sdk, shared, token, endpoint, now, idx, acc, tmp,
                   current_usage, items, status, hist, rate_limit, handled,
                   entry_stats>>

\* Lines 89-95: the factory builds a fresh dict, __missing__ stores it under
\* the key (replacing whatever is stored there by now) and hands it back.
StatsMissing(t) ==
    /\ pc[t] = "stats_missing"
    /\ stats_objs' = Append(stats_objs, NewStats)
    /\ usage_stats' = [k \in DOMAIN usage_stats \cup {token[t]} |->
                          IF k = token[t] THEN Len(stats_objs) + 1
                                          ELSE usage_stats[k]]
    /\ sref' = [sref EXCEPT ![t] = Len(stats_objs) + 1]
    /\ pc' = [pc EXCEPT ![t] = "stats_read"]
    /\ UNCHANGED <<sdk, API_KEYS, validation_service, started, clock,
                   request_counts, token, endpoint, now, idx, acc, tmp,
                   current_usage, items, status, hist, rate_limit, handled,
                   entry_stats>>

\* Line 140, `+= 1`: load the counter ...
StatsRead(t) ==
    /\ pc[t] = "stats_read"
    /\ tmp' = [tmp EXCEPT ![t] = stats_objs[sref[t]].total_requests]
    /\ pc' = [pc EXCEPT ![t] = "stats_write"]
    /\ UNCHANGED <<sdk, shared, token, endpoint, now, idx, acc, sref,
                   current_usage, items, status, hist, rate_limit, handled,
                   entry_stats>>

\* StatsWrite storing the value it loaded (no `+ 1`).
StatsWriteSame(t) ==
    /\ pc[t] = "stats_write"
    /\ stats_objs' = [stats_objs EXCEPT ![sref[t]].total_requests = tmp[t]]
    /\ tmp' = [tmp EXCEPT ![t] = 0]
    /\ sref' = [sref EXCEPT ![t] = 0]
    /\ pc' = [pc EXCEPT ![t] = "return"]
    /\ UNCHANGED <<sdk, API_KEYS, validation_service, started, clock,
                   request_counts, usage_stats, token, endpoint, now, idx,
                   acc, current_usage, items, status, hist, rate_limit,
                   handled, entry_stats>>

\* ... and store it back, one larger.
StatsWrite(t) ==
    /\ pc[t] = "stats_write"
    /\ stats_objs' = [stats_objs EXCEPT ![sref[t]].total_requests = tmp[t] + 1]
    /\ tmp' = [tmp EXCEPT ![t] = 0]
    /\ sref' = [sref EXCEPT ![t] = 0]
    /\ pc' = [pc EXCEPT ![t] = "return"]
    /\ UNCHANGED <<sdk, API_KEYS, validation_service, started, clock,
                   request_counts, usage_stats, token, endpoint, now, idx,
                   acc, current_usage, items, status, hist, rate_limit,
                   handled, entry_stats>>

\* Return with current_usage taken before the append of line 139.
ReturnPruned(t) ==
    /\ pc[t] = "return"
    /\ current_usage' = [current_usage EXCEPT ![t] =
                            Len(request_counts[token[t]]) - 1]
    /\ pc' = [pc EXCEPT ![t] = "handler"]
    /\ UNCHANGED <<sdk, shared, token, endpoint, now, idx, acc, sref, tmp, items,
                   status, hist, rate_limit, handled, entry_stats>>

\* Lines 142-147: the returned dict reads len(user_requests) once more.
Return(t) ==
    /\ pc[t] = "return"
    /\ current_usage' = [current_usage EXCEPT ![t] =
                            Len(request_counts[token[t]])]
    /\ pc' = [pc EXCEPT ![t] = "handler"]
    /\ UNCHANGED <<sdk, shared, token, endpoint, now, idx, acc, sref, tmp, items,
                   status, hist, rate_limit, handled, entry_stats>>

(* ------------------------------ handlers ------------------------------- *)
\* The handlers are coroutines without an await: the event loop runs one
\* handler from its first line to its last, and serializes what it returned,
\* before it starts another.
InHandler(t) == pc[t] \in {"h_success", "h_fail", "serialize"}
LoopFree == \A u \in Threads : ~InHandler(u)

\* What one USPS call of the batch loop does: it answers that the address is
\* mailable, that it is not, or it raises.
UspsAnswers == {"valid", "invalid", "raise"}

\* The answers to the calls for n us_valid records, in their order.
UspsRuns(n) == UNION {[1..m -> UspsAnswers] : m \in 0..n}

\* Request bodies together with what the collaborators answer.  A batch
\* upload is its number of files, whether every file is a readable .csv, its
\* total number of rows, the USPS answers for its us_valid rows and whether
\* is_address_validation_available().
Bodies(e, k) ==
    CASE e = "validate_names" ->
           {[nfiles |-> 0, csv_ok |-> TRUE, records |-> n, usps |-> << >>,
             available |-> FALSE] : n \in 1..MaxNames}
      [] e = "validate_address" ->
           {[nfiles |-> 0, csv_ok |-> TRUE, records |-> 1, usps |-> u,
             available |-> TRUE] : u \in {<<"valid">>, <<"raise">>}}
      [] e = "batch_validate_addresses" ->
           {[nfiles |-> f, csv_ok |-> c, records |-> n, usps |-> u,
             available |-> TRUE] :
               f \in {1, MAX_FILES + 1}, c \in BOOLEAN,
               n \in {API_KEYS[k].max_addresses_per_request,
                      API_KEYS[k].max_addresses_per_request + 1},
               u \in {<< >>, <<"raise", "valid">>}}
      [] OTHER -> {[nfiles |-> 0, csv_ok |-> TRUE, records |-> 0,
                    usps |-> << >>, available |-> FALSE]}

\* BatchRefused with the cap itself refused (`>=` for `>` at line 392).
BatchRefusedAtCap(k, b) ==
    \/ b.nfiles > MAX_FILES
    \/ ~b.csv_ok
    \/ b.records >= API_KEYS[k].max_addresses_per_request

\* Lines 371-400: the checks of a batch upload that end in a 400.
BatchRefused(k, b) ==
    \/ b.nfiles > MAX_FILES
    \/ ~b.csv_ok
    \/ b.records > API_KEYS[k].max_addresses_per_request

\* What a refused upload had cost by then: the count of the files (372)
\* comes before any file is read (384).
RefusedWork(b) == IF b.nfiles > MAX_FILES THEN {} ELSE {"read_csv"}

\* Lines 481-522: the loop over all_us_valid.  A call that raises is
\* skipped (520-522); the others are appended to usps_results and counted.
RECURSIVE UspsLoop(_, _, _)
UspsLoop(outs, i, r) ==
    IF i > Len(outs) THEN r
    ELSE UspsLoop(outs, i + 1,
           IF outs[i] = "raise" THEN r
           ELSE [usps_results |->
                    Append(r.usps_results,
                           [row |-> i, usps_valid |-> outs[i] = "valid"]),
                 usps_processed |-> r.usps_processed + 1,
                 usps_successful |-> r.usps_successful
                                       + (IF outs[i] = "valid" THEN 1 ELSE 0)])

\* UspsPass with one failing record costing the batch all of its USPS
\* results (the try of line 487 around the loop instead of inside it).
UspsPassAllOrNothing(b) ==
    LET none == [usps_results |-> << >>, usps_processed |-> 0,
                 usps_successful |-> 0] IN
      IF /\ Len(b.usps) > 0 /\ b.available
         /\ \A i \in 1..Len(b.usps) : b.usps[i] # "raise"
        THEN UspsLoop(b.usps, 1, none)
        ELSE none

\* Line 485 and the loop: nothing is called when there is no us_valid
\* record or USPS is not configured.
UspsPass(b) ==
    LET none == [usps_results |-> << >>, usps_processed |-> 0,
                 usps_successful |-> 0] IN
      IF Len(b.usps) > 0 /\ b.available THEN UspsLoop(b.usps, 1, none)
                                        ELSE none

\* The content a handler returns when its try block has run (250, 331,
\* 532-567).
Content(e, b) ==
    CASE e = "validate_names" -> [kind |-> "names", count |-> b.records]
      [] e = "validate_address" ->
           [kind |-> "address",
            usps_processed |-> b.available /\ b.usps = <<"valid">>]
      [] OTHER ->
           [kind |-> "batch", status |-> "completed",
            total_records |-> b.records, us_valid |-> Len(b.usps),
            usps_processed |-> UspsPass(b).usps_processed,
            usps_successful |-> UspsPass(b).usps_successful,
            usps_results |-> UspsPass(b).usps_results]

\* The collaborator operations the try block of route e invokes.
Work(e, b) ==
    CASE e = "validate_names" -> {"validate_names"}
      [] e = "validate_address" ->
           {"categorize"} \cup (IF b.available THEN {"usps"} ELSE {})
      [] OTHER ->
           {"read_csv", "categorize"}
              \cup (IF Len(b.usps) > 0 /\ b.available THEN {"usps"} ELSE {})

\* The body as the handler has it, with the outcome of the try block.
Taken(b, raised) ==
    [nfiles |-> b.nfiles, csv_ok |-> b.csv_ok, records |-> b.records,
     usps |-> b.usps, available |-> b.available, raised |-> raised]

\* An HTTPException raised before the handler looked at the body.
Refuse(t, s) ==
    /\ Finish(t, s)
    /\ response' = [response EXCEPT ![t] = [kind |-> "error"]]
    /\ UNCHANGED <<stats_objs, body, business, snapshot>>

\* usage_stats[api_key][field] += n, on the dict stored under the key now.
Bump(field, k, n) ==
    [stats_objs EXCEPT ![usage_stats[k]][field] = @ + n]

\* HandlerGate testing the feature before it tests validation_service.
HandlerGateFeatureFirst(t, e, b, raised) ==
    /\ pc[t] = "handler"
    /\ LoopFree
    /\ endpoint' = [endpoint EXCEPT ![t] = e]
    /\ IF e = "api_info"
         THEN /\ Finish(t, 200)
              /\ response' = [response EXCEPT ![t] =
                    [kind |-> "api_info", stats |-> StatsOf(token[t]),
                     current_usage |-> current_usage[t],
                     rate_limit |-> rate_limit[t]]]
              /\ snapshot' = [snapshot EXCEPT ![t] = StatsOf(token[t])]
              /\ UNCHANGED <<stats_objs, body, business>>
       ELSE IF e = "usage_stats"
         THEN /\ sref' = [sref EXCEPT ![t] = usage_stats[token[t]]]
              /\ snapshot' = [snapshot EXCEPT ![t] = StatsOf(token[t])]
              /\ pc' = [pc EXCEPT ![t] = "serialize"]
              /\ UNCHANGED <<stats_objs, body, business, response, status,
                             idx, acc, tmp, items>>
       ELSE IF RequiredFeature(e) \notin API_KEYS[token[t]].features
         THEN Refuse(t, 403)
       ELSE IF ~validation_service
         THEN Refuse(t, 503)
       ELSE IF e = "batch_validate_addresses" /\ BatchRefused(token[t], b)
         THEN /\ Finish(t, 400)
              /\ response' = [response EXCEPT ![t] = [kind |-> "error"]]
              /\ body' = [body EXCEPT ![t] =
                            Taken([b EXCEPT !.usps = << >>,
                                            !.available = FALSE], FALSE)]
              /\ business' = [business EXCEPT ![t] = RefusedWork(b)]
              /\ UNCHANGED <<stats_objs, snapshot>>
       ELSE /\ body' = [body EXCEPT ![t] = Taken(b, raised)]
            /\ business' = [business EXCEPT ![t] = Work(e, b)]
            /\ UNCHANGED snapshot
            /\ IF raised
                 THEN /\ stats_objs' = Bump("failed_requests", token[t], 1)
                      /\ response' = [response EXCEPT ![t] =
                                         [kind |-> "error"]]
                      /\ Finish(t, 500)
                 ELSE /\ stats_objs' =
                           Bump(IF e = "validate_names"
                                  THEN "names_processed"
                                  ELSE "addresses_processed",
                                token[t], b.records)
                      /\ response' = [response EXCEPT ![t] = Content(e, b)]
                      /\ pc' = [pc EXCEPT ![t] = "h_success"]
                      /\ UNCHANGED <<status, idx, acc, sref, tmp, items>>
    /\ UNCHANGED <<sdk, API_KEYS, validation_service, started, clock,
                   request_counts, usage_stats, token, now, current_usage,
                   hist, rate_limit, entry_stats>>

\* HandlerGate with the feature tested after the work is done.
HandlerGateLateFeature(t, e, b, raised) ==
    /\ pc[t] = "handler"
    /\ LoopFree
    /\ endpoint' = [endpoint EXCEPT ![t] = e]
    /\ IF e = "api_info"
         THEN /\ Finish(t, 200)
              /\ response' = [response EXCEPT ![t] =
                    [kind |-> "api_info", stats |-> StatsOf(token[t]),
                     current_usage |-> current_usage[t],
                     rate_limit |-> rate_limit[t]]]
              /\ snapshot' = [snapshot EXCEPT ![t] = StatsOf(token[t])]
              /\ UNCHANGED <<stats_objs, body, business>>
       ELSE IF e = "usage_stats"
         THEN /\ sref' = [sref EXCEPT ![t] = usage_stats[token[t]]]
              /\ snapshot' = [snapshot EXCEPT ![t] = StatsOf(token[t])]
              /\ pc' = [pc EXCEPT ![t] = "serialize"]
              /\ UNCHANGED <<stats_objs, body, business, response, status,
                             idx, acc, tmp, items>>
       ELSE IF ~validation_service
         THEN Refuse(t, 503)
       ELSE IF RequiredFeature(e) \notin API_KEYS[token[t]].features
         THEN /\ Finish(t, 403)
              /\ response' = [response EXCEPT ![t] = [kind |-> "error"]]
              /\ business' = [business EXCEPT ![t] = Work(e, b)]
              /\ UNCHANGED <<stats_objs, body, snapshot>>
       ELSE IF e = "batch_validate_addresses" /\ BatchRefused(token[t], b)
         THEN /\ Finish(t, 400)
              /\ response' = [response EXCEPT ![t] = [kind |-> "error"]]
              /\ body' = [body EXCEPT ![t] =
                            Taken([b EXCEPT !.usps = << >>,
                                            !.available = FALSE], FALSE)]
              /\ business' = [business EXCEPT ![t] = RefusedWork(b)]
              /\ UNCHANGED <<stats_objs, snapshot>>
       ELSE /\ body' = [body EXCEPT ![t] = Taken(b, raised)]
            /\ business' = [business EXCEPT ![t] = Work(e, b)]
            /\ UNCHANGED snapshot
            /\ IF raised
                 THEN /\ stats_objs' = Bump("failed_requests", token[t], 1)
                      /\ response' = [response EXCEPT ![t] =
                                         [kind |-> "error"]]
                      /\ Finish(t, 500)
                 ELSE /\ stats_objs' =
                           Bump(IF e = "validate_names"
                                  THEN "names_processed"
                                  ELSE "addresses_processed",
                                token[t], b.records)
                      /\ response' = [response EXCEPT ![t] = Content(e, b)]
                      /\ pc' = [pc EXCEPT ![t] = "h_success"]
                      /\ UNCHANGED <<status, idx, acc, sref, tmp, items>>
    /\ UNCHANGED <<sdk, API_KEYS, validation_service, started, clock,
                   request_counts, usage_stats, token, now, current_usage,
                   hist, rate_limit, entry_stats>>

\* The handler of route e for a request with body b, from its first line
\* to its first write of the counters.  api_info (190-210) copies the
\* counters into its answer; get_usage_stats (585-605) returns the stored
\* dict itself, which is read when the response is serialized.  The others
\* test the service (223, 275, 355), the key's features (230, 282, 362)
\* and, for a batch, the upload (371-400); then the try block runs
\* (239-241, 291-323, 402-524): the collaborators answer and the handler
\* counts the items (244, 326, 527), or something raises into the except
\* clause (253-262, 333-342, 569-578).
HandlerGate(t, e, b, raised) ==
    /\ pc[t] = "handler"
    /\ LoopFree
    /\ endpoint' = [endpoint EXCEPT ![t] = e]
    /\ IF e = "api_info"
         THEN /\ Finish(t, 200)
              /\ response' = [response EXCEPT ![t] =
                    [kind |-> "api_info", stats |-> StatsOf(token[t]),
                     current_usage |-> current_usage[t],
                     rate_limit |-> rate_limit[t]]]
              /\ snapshot' = [snapshot EXCEPT ![t] = StatsOf(token[t])]
              /\ UNCHANGED <<stats_objs, body, business>>
       ELSE IF e = "usage_stats"
         THEN /\ sref' = [sref EXCEPT ![t] = usage_stats[token[t]]]
              /\ snapshot' = [snapshot EXCEPT ![t] = StatsOf(token[t])]
              /\ pc' = [pc EXCEPT ![t] = "serialize"]
              /\ UNCHANGED <<stats_objs, body, business, response, status,
                             idx, acc, tmp, items>>
       ELSE IF ~validation_service
         THEN Refuse(t, 503)
       ELSE IF RequiredFeature(e) \notin API_KEYS[token[t]].features
         THEN Refuse(t, 403)
       ELSE IF e = "batch_validate_addresses" /\ BatchRefused(token[t], b)
         THEN /\ Finish(t, 400)
              /\ response' = [response EXCEPT ![t] = [kind |-> "error"]]
              /\ body' = [body EXCEPT ![t] =
                            Taken([b EXCEPT !.usps = << >>,
                                            !.available = FALSE], FALSE)]
              /\ business' = [business EXCEPT ![t] = RefusedWork(b)]
              /\ UNCHANGED <<stats_objs, snapshot>>
       ELSE /\ body' = [body EXCEPT ![t] = Taken(b, raised)]
            /\ business' = [business EXCEPT ![t] = Work(e, b)]
            /\ UNCHANGED snapshot
            /\ IF raised
                 THEN /\ stats_objs' = Bump("failed_requests", token[t], 1)
                      /\ response' = [response EXCEPT ![t] =
                                         [kind |-> "error"]]
                      /\ Finish(t, 500)
                 ELSE /\ stats_objs' =
                           Bump(IF e = "validate_names"
                                  THEN "names_processed"
                                  ELSE "addresses_processed",
                                token[t], b.records)
                      /\ response' = [response EXCEPT ![t] = Content(e, b)]
                      /\ pc' = [pc EXCEPT ![t] = "h_success"]
                      /\ UNCHANGED <<status, idx, acc, sref, tmp, items>>
    /\ UNCHANGED <<sdk, API_KEYS, validation_service, started, clock,
                   request_counts, usage_stats, token, now, current_usage,
                   hist, rate_limit, entry_stats>>

\* Lines 245, 327, 528: successful_requests += 1, then the response.
\* validate_names still builds NameValidationResponse inside the try
\* block (250-251), which may raise.
HandlerSuccess(t) ==
    /\ pc[t] = "h_success"
    /\ stats_objs' = Bump("successful_requests", token[t], 1)
    /\ \/ Finish(t, 200) /\ UNCHANGED response
       \/ /\ endpoint[t] = "validate_names"
          /\ pc' = [pc EXCEPT ![t] = "h_fail"]
          /\ UNCHANGED <<status, idx, acc, sref, tmp, items, response>>
    /\ UNCHANGED <<sdk, API_KEYS, validation_service, started, clock,
                   request_counts, usage_stats, token, endpoint, now,
                   current_usage, hist, rate_limit, body, business,
                   snapshot, entry_stats>>

\* Lines 253-262, 333-342, 569-578: the except clause.
HandlerFail(t) ==
    /\ pc[t] = "h_fail"
    /\ stats_objs' = Bump("failed_requests", token[t], 1)
    /\ response' = [response EXCEPT ![t] = [kind |-> "error"]]
    /\ Finish(t, 500)
    /\ UNCHANGED <<sdk, API_KEYS, validation_service, started, clock,
                   request_counts, usage_stats, token, endpoint, now,
                   current_usage, hist, rate_limit, body, business,
                   snapshot, entry_stats>>

\* Serialize with the counters copied when the handler read them.
SerializeCopy(t) ==
    /\ pc[t] = "serialize"
    /\ response' = [response EXCEPT ![t] =
                       [kind |-> "usage", stats |-> snapshot[t],
                        current_usage |-> current_usage[t],
                        rate_limit |-> rate_limit[t]]]
    /\ Finish(t, 200)
    /\ UNCHANGED <<sdk, shared, token, endpoint, now, current_usage, hist,
                   rate_limit, body, business, snapshot, entry_stats>>

\* The content get_usage_stats returned is encoded: 'lifetime_statistics'
\* is the dict `stats` (599), read now.
Serialize(t) ==
    /\ pc[t] = "serialize"
    /\ response' = [response EXCEPT ![t] =
                       [kind |-> "usage", stats |-> stats_objs[sref[t]],
                        current_usage |-> current_usage[t],
                        rate_limit |-> rate_limit[t]]]
    /\ Finish(t, 200)
    /\ UNCHANGED <<sdk, shared, token, endpoint, now, current_usage, hist,
                   rate_limit, body, business, snapshot, entry_stats>>

\* The response has been sent; the task ends.
Respond(t) ==
    /\ pc[t] = "done"
    /\ pc' = [pc EXCEPT ![t] = "idle"]
    /\ token' = [token EXCEPT ![t] = ""]
    /\ endpoint' = [endpoint EXCEPT ![t] = ""]
    /\ now' = [now EXCEPT ![t] = 0]
    /\ current_usage' = [current_usage EXCEPT ![t] = 0]
    /\ status' = [status EXCEPT ![t] = 0]
    /\ rate_limit' = [rate_limit EXCEPT ![t] = 0]
    /\ body' = [body EXCEPT ![t] = NoBody]
    /\ business' = [business EXCEPT ![t] = {}]
    /\ response' = [response EXCEPT ![t] = NoResponse]
    /\ entry_stats' = [entry_stats EXCEPT ![t] = NewStats]
    /\ snapshot' = [snapshot EXCEPT ![t] = NewStats]
    /\ UNCHANGED <<sdk, shared, idx, acc, sref, tmp, items, hist>>

(* ---------------------------- specifications --------------------------- *)
\* Time between two readings of the clock.
TickSteps == {0, (WINDOW - 1) * Resolution, WINDOW * Resolution,
              (WINDOW + 1) * Resolution}

\* One step of a request that is under way.
Step(t) ==
    \/ PruneIter(t)
    \/ PruneStore(t)
    \/ CheckLimit(t)
    \/ \E e \in Endpoints : Reject(t, e)
    \/ AppendNow(t)
    \/ StatsGet(t)
    \/ StatsMissing(t)
    \/ StatsRead(t)
    \/ StatsWrite(t)
    \/ Return(t)
    \/ /\ pc[t] = "handler"
       /\ \E e \in Endpoints : \E b \in Bodies(e, token[t]) :
             \E raised \in BOOLEAN : HandlerGate(t, e, b, raised)
    \/ HandlerSuccess(t)
    \/ HandlerFail(t)
    \/ Serialize(t)
    \/ Respond(t)

\* Requests arrive at any time and are served concurrently, each by the
\* first free worker.
Arrive(t, k, e, d) ==
    /\ calls < MaxCalls
    /\ clock + d <= MaxClock
    /\ \A u \in Threads : u < t => ~Free(u)
    /\ CheckKey(t, k, e, d)

Next ==
    \/ Startup
    \/ \E t \in Threads, k \in BurstTokens, e \in Endpoints, d \in TickSteps :
          Arrive(t, k, e, d)
    \/ \E t \in Threads : Step(t)

Spec == Init /\ [][Next]_vars

\* Requests processed one at a time: a request arrives when no other is
\* under way.
ArriveSeq(t, k, e, d) ==
    /\ calls < MaxSeqCalls
    /\ clock + d <= MaxClock
    /\ \A u \in Threads : Free(u) /\ t <= u
    /\ CheckKey(t, k, e, d)

NextSeq ==
    \/ Startup
    \/ \E t \in Threads, k \in Tokens, e \in Endpoints, d \in TickSteps :
          ArriveSeq(t, k, e, d)
    \/ \E t \in Threads : Step(t)

SpecSeq == Init /\ [][NextSeq]_vars

\* The scenario of the demo key, whose limit is 60 a minute in the source:
\* one request a second from t = 0 until the limit is used up, request
\* number limit + 1 either exactly 60 s or 60.001 s after the first, and
\* one more at the same instant.  The requests go to /api-info.
DemoLimit == ProductionKeys[DemoKey].requests_per_minute

InitDemo == InitCommon /\ API_KEYS = ProductionKeys

ArriveDemo(d) ==
    /\ \/ calls = 0 /\ d = 0
       \/ calls \in 1..(DemoLimit - 1) /\ d = Resolution
       \/ calls = DemoLimit /\ d \in {Resolution, Resolution + 1}
       \/ calls = DemoLimit + 1 /\ d = 0
    /\ CheckKey(1, DemoKey, "api_info", d)

DemoStep ==
    \/ PruneIter(1)
    \/ PruneStore(1)
    \/ CheckLimit(1)
    \/ Reject(1, "api_info")
    \/ AppendNow(1)
    \/ StatsGet(1)
    \/ StatsMissing(1)
    \/ StatsRead(1)
    \/ StatsWrite(1)
    \/ Return(1)
    \/ /\ pc[1] = "handler"
       /\ \E b \in Bodies("api_info", DemoKey) :
             HandlerGate(1, "api_info", b, FALSE)
    \/ Respond(1)

NextDemo ==
    \/ Startup
    \/ \E d \in {0, Resolution, Resolution + 1} : ArriveDemo(d)
    \/ DemoStep

SpecDemo == InitDemo /\ [][NextDemo]_vars

\* Batch uploads with the limits of the source: the premium and the
\* enterprise key (caps 1000 and 5000) upload, one request at a time, files
\* that hold 200 rows less than the cap, the cap, one row more and 200 rows
\* more; up to MaxUsps of the rows are us_valid and go to USPS.
BatchKeys == {PremiumKey, EnterpriseKey}

UploadBodies(k) ==
    {[nfiles |-> f, csv_ok |-> c, records |-> n, usps |-> u, available |-> a] :
        f \in {5, MAX_FILES + 1}, c \in BOOLEAN,
        n \in {ProductionKeys[k].max_addresses_per_request + x :
                  x \in {-200, 0, 1, 200}},
        u \in UspsRuns(MaxUsps), a \in BOOLEAN}

ArriveBatch(k) ==
    /\ calls < MaxSeqCalls
    /\ CheckKey(1, k, "batch_validate_addresses", 0)

BatchStep ==
    \/ PruneIter(1)
    \/ PruneStore(1)
    \/ CheckLimit(1)
    \/ AppendNow(1)
    \/ StatsGet(1)
    \/ StatsMissing(1)
    \/ StatsRead(1)
    \/ StatsWrite(1)
    \/ Return(1)
    \/ /\ pc[1] = "handler"
       /\ \E b \in UploadBodies(token[1]) : \E raised \in BOOLEAN :
             HandlerGate(1, "batch_validate_addresses", b, raised)
    \/ HandlerSuccess(1)
    \/ Respond(1)

NextBatch ==
    \/ Startup
    \/ \E k \in BatchKeys : ArriveBatch(k)
    \/ BatchStep

SpecBatch == InitDemo /\ [][NextBatch]_vars

\* The gate alone: up to MaxGateCalls requests to /api-info, one at a time,
\* with the keys of two callers (limits RateBase and RateBase + 1), at the
\* same instant as the request before or 59, 60 or 61 seconds later.
GateKeys == {DemoKey, PremiumKey}

ArriveGate(k, d) ==
    /\ calls < MaxGateCalls
    /\ CheckKey(1, k, "api_info", d)

NextGate ==
    \/ Startup
    \/ \E k \in GateKeys, d \in TickSteps : ArriveGate(k, d)
    \/ DemoStep

SpecGate == Init /\ [][NextGate]_vars

\* Overlapping requests of one key within its limit: up to MaxCalls
\* requests to /api-info with the premium key (limit RateBase + 1), served
\* concurrently.  None of them can be refused, so the 429 is no step here.
PairStep(t) ==
    \/ PruneIter(t)
    \/ PruneStore(t)
    \/ CheckLimit(t)
    \/ AppendNow(t)
    \/ StatsGet(t)
    \/ StatsMissing(t)
    \/ StatsRead(t)
    \/ StatsWrite(t)
    \/ Return(t)
    \/ /\ pc[t] = "handler"
       /\ \E b \in Bodies("api_info", PremiumKey) :
             HandlerGate(t, "api_info", b, FALSE)
    \/ Respond(t)

ArrivePair(t, d) ==
    /\ calls < MaxCalls
    /\ \A u \in Threads : u < t => ~Free(u)
    /\ CheckKey(t, PremiumKey, "api_info", d)

NextPair ==
    \/ Startup
    \/ \E t \in Threads, d \in TickSteps : ArrivePair(t, d)
    \/ \E t \in Threads : PairStep(t)

SpecPair == Init /\ [][NextPair]_vars

(* ----------------------------- client SDK ------------------------------ *)
\* client_sdk/address_validator_client.py, AddressValidatorClient.
\* _make_request, used by one caller at a time.  What session.request does
\* is an input: it raises Timeout, ConnectionError or something else, or it
\* returns a response with a status code, an X-RateLimit-Remaining header
\* that is absent, a number or not a number, and a body that is JSON or not.
ClientStatuses == {200, 401, 403, 429, 500}

Answers ==
    {[kind |-> k] : k \in {"timeout", "connection_error", "error"}}
       \cup {[kind |-> "response", status_code |-> c, header |-> h,
               json |-> j] :
                 c \in ClientStatuses, h \in {"absent", "number", "text"},
                 j \in BOOLEAN}

\* Line 86: self.total_requests += 1, first statement of the try block.
MakeRequest ==
    /\ client_pc = "idle"
    /\ client.total_requests < MaxClientCalls
    /\ client' = [client EXCEPT !.total_requests = @ + 1]
    /\ client_pc' = "request"
    /\ UNCHANGED <<shared, locals, hist, client_response>>

\* Line 87: session.request returns a response or raises.
SessionRequest(a) ==
    /\ client_pc = "request"
    /\ client_response' = a
    /\ client_pc' = CASE a.kind = "timeout" -> "except_timeout"
                      [] a.kind = "connection_error" -> "except_connection"
                      [] a.kind = "error" -> "except"
                      [] OTHER -> "header"
    /\ UNCHANGED <<shared, locals, hist, client>>

\* Lines 91-93: int() of the rate-limit header, which raises ValueError
\* when the header is not a number.
RateLimitHeader ==
    /\ client_pc = "header"
    /\ client_pc' = IF client_response.header = "text" THEN "except"
                                                       ELSE "status"
    /\ UNCHANGED <<shared, locals, hist, client, client_response>>

\* Lines 95-96 and 103-123: a 200 counts as a success before its body is
\* decoded; every other status counts as a failure and is returned (the
\* decoding of an error body at 110-114 has its own bare except).
StatusCode ==
    /\ client_pc = "status"
    /\ IF client_response.status_code = 200
         THEN /\ client' = [client EXCEPT !.successful_requests = @ + 1]
              /\ client_pc' = "decode"
              /\ UNCHANGED client_response
         ELSE /\ client' = [client EXCEPT !.failed_requests = @ + 1]
              /\ client_pc' = "idle"
              /\ client_response' = NoAnswer
    /\ UNCHANGED <<shared, locals, hist>>

\* Lines 97-102: the result is built with data = response.json(), which
\* raises when the body is not JSON.
DecodeBody ==
    /\ client_pc = "decode"
    /\ IF client_response.json
         THEN client_pc' = "idle" /\ client_response' = NoAnswer
         ELSE client_pc' = "except" /\ UNCHANGED client_response
    /\ UNCHANGED <<shared, locals, hist, client>>

\* Lines 125-148: each of the three except clauses counts a failure and
\* returns a failed result.
Except ==
    /\ client_pc \in {"except_timeout", "except_connection", "except"}
    /\ client' = [client EXCEPT !.failed_requests = @ + 1]
    /\ client_pc' = "idle"
    /\ client_response' = NoAnswer
    /\ UNCHANGED <<shared, locals, hist>>

NextClient ==
    \/ MakeRequest
    \/ \E a \in Answers : SessionRequest(a)
    \/ RateLimitHeader
    \/ StatusCode
    \/ DecodeBody
    \/ Except

SpecClient == Init /\ [][NextClient]_vars

(* ------------------------------- claims -------------------------------- *)
Done(t)       == pc[t] = "done"
Registered(t) == token[t] \in DOMAIN API_KEYS
Limit(k)      == API_KEYS[k].requests_per_minute
Passed(t)     == Done(t) /\ status[t] \notin {401, 429}

\* Admissions of key k in the 60 seconds that end at time T.
WindowAdmissions(k, T) ==
    Cardinality({i \in DOMAIN admitted[k] :
                    admitted[k][i] <= T /\ T - admitted[k][i] < WindowUnits})

\* The admissions of the key of the finished request t that came before t
\* (requests one at a time: an admitted t is the last admission of its key).
PriorAdmits(t) ==
    LET a == admitted[token[t]] IN
      IF status[t] = 429 THEN a ELSE SubSeq(a, 1, Len(a) - 1)

FreshPrior(t) ==
    Cardinality({i \in DOMAIN PriorAdmits(t) :
                    now[t] - PriorAdmits(t)[i] < WindowUnits})

\* C1: for every key, no trailing 60-second window ever holds more
\* admitted requests than the key's requests_per_minute, whatever the
\* interleaving of concurrent verify_api_key calls.
C1_NoOverAdmission ==
    \A k \in DOMAIN API_KEYS : \A i \in DOMAIN admitted[k] :
        WindowAdmissions(k, admitted[k][i]) <= Limit(k)

\* C2: from an empty window, once 2L calls for a key with limit L have been
\* decided inside one 60-second window, exactly L were admitted and exactly
\* L were refused with 429.
C2_BurstExact ==
    \A k \in DOMAIN API_KEYS :
        (clock < WindowUnits /\ Len(admitted[k]) + rejected[k] = 2 * Limit(k))
           => (Len(admitted[k]) = Limit(k) /\ rejected[k] = Limit(k))

\* C3: requests one at a time; a request for a key that already has L
\* admissions less than 60 seconds old is refused with 429.
C3_NextRejected ==
    \A t \in Threads :
        (Done(t) /\ Registered(t) /\ FreshPrior(t) >= Limit(token[t]))
           => status[t] = 429

C3_Witness ==
    \E t \in Threads :
        /\ Done(t) /\ Registered(t) /\ status[t] = 429
        /\ FreshPrior(t) >= Limit(token[t])
        /\ now[t] - admitted[token[t]][1] = (WINDOW - 1) * Resolution

\* C4: requests one at a time; a request for a key whose L or more earlier
\* admissions are all at least 61 seconds old is admitted.
C4_AdmittedAfterIdle ==
    \A t \in Threads :
        ( /\ Done(t) /\ Registered(t)
          /\ Len(PriorAdmits(t)) >= Limit(token[t])
          /\ \A i \in DOMAIN PriorAdmits(t) :
                now[t] - PriorAdmits(t)[i] >= (WINDOW + 1) * Resolution )
           => status[t] # 429

C4_Witness ==
    \E t \in Threads :
        /\ Passed(t) /\ Registered(t)
        /\ Len(PriorAdmits(t)) >= Limit(token[t])
        /\ \A i \in DOMAIN PriorAdmits(t) :
              now[t] - PriorAdmits(t)[i] >= (WINDOW + 1) * Resolution
        /\ request_counts[token[t]] = <<now[t]>>

\* C5 as stated: in the demo scenario, request number 61, made exactly 60
\* seconds after the first, is refused with 429.
C5_BoundaryRejected ==
    (Done(1) /\ calls = DemoLimit + 1 /\ now[1] = WINDOW * Resolution)
       => status[1] = 429

\* C5 amended: in the demo scenario, request number 61, made exactly 60
\* seconds after the first, is admitted (the first timestamp is pruned).
C5_BoundaryAdmitted ==
    (Done(1) /\ calls = DemoLimit + 1 /\ now[1] = WINDOW * Resolution)
       => (status[1] = 200 /\ Len(request_counts[DemoKey]) = DemoLimit)

C5_Witness ==
    /\ Done(1) /\ calls = DemoLimit + 1 /\ now[1] = WINDOW * Resolution
    /\ status[1] = 200
    /\ request_counts[DemoKey][1] = Resolution

\* C6: in the demo scenario, request number 61 made 60.001 seconds after the
\* first is admitted and exactly the first timestamp is pruned; one more
\* request at the same instant is refused, the window holding 60 entries.
C6_SlidingExpiry ==
    /\ (Done(1) /\ calls = DemoLimit + 1 /\ now[1] = WINDOW * Resolution + 1)
          => /\ status[1] = 200
             /\ request_counts[DemoKey] =
                   [i \in 1..DemoLimit |->
                       IF i < DemoLimit THEN i * Resolution ELSE now[1]]
    /\ (Done(1) /\ calls = DemoLimit + 2 /\ now[1] = WINDOW * Resolution + 1)
          => /\ status[1] = 429
             /\ Len(request_counts[DemoKey]) = DemoLimit

C6_Witness ==
    /\ Done(1) /\ calls = DemoLimit + 2 /\ now[1] = WINDOW * Resolution + 1
    /\ status[1] = 429
    /\ request_counts[DemoKey][1] = Resolution
    /\ request_counts[DemoKey][DemoLimit] = now[1]

\* C7: requests one at a time; the pruning of verify_api_key removes a
\* stored timestamp ts exactly when now - ts >= 60 (the boundary included)
\* and keeps the others, in their order.
C7_PruneExact ==
    [][\A t \in Threads :
          (pc[t] = "prune_store" /\ pc'[t] = "check_limit")
             => request_counts'[token[t]] =
                  SelectSeq(request_counts[token[t]],
                            LAMBDA ts : ~(now[t] - ts >= WindowUnits))]_vars

C7_Witness ==
    \E t \in Threads :
        /\ pc[t] = "check_limit"
        /\ admitted[token[t]] # << >>
        /\ now[t] - admitted[token[t]][1] = WindowUnits
        /\ request_counts[token[t]] = << >>

\* C8: a request whose token is no key of API_KEYS ends with 401, and never
\* gets past the key test, whatever request_counts and usage_stats hold.
C8_InvalidKey ==
    \A t \in Threads :
        (pc[t] # "idle" /\ token[t] \notin DOMAIN API_KEYS)
           => (Done(t) /\ status[t] = 401)

C8_Witness ==
    \E t \in Threads :
        /\ Done(t) /\ token[t] = InvalidToken /\ status[t] = 401
        /\ \E k \in DOMAIN request_counts :
              Len(request_counts[k]) >= Limit(k)

\* C9: the step that refuses an unknown token leaves request_counts and
\* usage_stats (and the counters) unchanged, and request_counts and
\* usage_stats never hold an entry for a token that is no key of API_KEYS.
C9_InvalidKeyFrame ==
    [][ /\ \A t \in Threads :
             (pc[t] = "idle" /\ pc'[t] # "idle"
                /\ token'[t] \notin DOMAIN API_KEYS)
                => UNCHANGED <<request_counts, usage_stats, stats_objs>>
        /\ DOMAIN request_counts' \subseteq DOMAIN API_KEYS
        /\ DOMAIN usage_stats' \subseteq DOMAIN API_KEYS ]_vars

C9_Witness ==
    \E t \in Threads :
        /\ Done(t) /\ token[t] = InvalidToken /\ status[t] = 401
        /\ DOMAIN request_counts # {}
        /\ DOMAIN usage_stats # {}

\* C10: a request with the demo key to /api/batch-validate-addresses ends
\* with 403, whatever the rate window and the validation service.
C10_DemoBatchForbidden ==
    \A t \in Threads :
        (Done(t) /\ token[t] = DemoKey
           /\ endpoint[t] = "batch_validate_addresses")
           => status[t] = 403

TypeOK == clock \in Nat

\* The counters of the key of request t, as stored now.
Counters(t) == StatsOf(token[t])

\* Every request is finished or has not come yet.
Quiescent == \A t \in Threads : pc[t] \in {"idle", "done"}

\* C11: requests one at a time; a request refused with 403 because the
\* key lacks the route's feature has left the key's window as the pruning
\* found it (no timestamp of its own) and total_requests as it was.
C11_FeatureBeforeRate ==
    \A t \in Threads :
        (Done(t) /\ status[t] = 403)
           => /\ Len(request_counts[token[t]]) = FreshPrior(t)
              /\ Counters(t).total_requests = entry_stats[t].total_requests

\* C12: requests one at a time; the 429 of a request that found its pruned
\* window at or above the key's requests_per_minute carries current_usage
\* equal to the pruned window length, limit equal to requests_per_minute
\* and retry_after equal to 60.
C12_RateLimitedDetail ==
    \A t \in Threads :
        (Done(t) /\ status[t] = 429)
           => /\ FreshPrior(t) >= Limit(token[t])
              /\ response[t].kind = "rate_limited"
              /\ response[t].current_usage = FreshPrior(t)
              /\ response[t].limit = Limit(token[t])
              /\ response[t].retry_after = 60

C12_Witness ==
    \E t \in Threads :
        /\ Done(t) /\ status[t] = 429
        /\ response[t].kind = "rate_limited"
        /\ response[t].current_usage = Limit(token[t])
        /\ response[t].current_usage >= 1

\* C13: for every key, no step makes the total_requests stored for the key
\* smaller than it was, whatever the interleaving of the requests.
C13_TotalMonotonic ==
    [][\A k \in DOMAIN usage_stats :
          /\ k \in DOMAIN usage_stats'
          /\ stats_objs'[usage_stats'[k]].total_requests
                >= stats_objs[usage_stats[k]].total_requests]_vars

\* C14: once every request under way has completed, the total_requests of
\* each key equals the number of requests admitted for it, whatever the
\* interleaving of the admissions.
C14_NoLostIncrement ==
    Quiescent =>
       \A k \in DOMAIN API_KEYS :
           StatsOf(k).total_requests = Len(admitted[k])

\* C15: requests one at a time; a request with a registered key that ends
\* in a failure (429, 403, 400, 503 or 500) has raised the key's
\* failed_requests by exactly one.
C15_FailureCounted ==
    \A t \in Threads :
        (Done(t) /\ Registered(t) /\ status[t] \in {429, 403, 400, 503, 500})
           => Counters(t).failed_requests = entry_stats[t].failed_requests + 1

\* C16: a batch upload of an entitled key that got as far as the row count
\* (service up, at most 10 files, every file a readable .csv) is refused
\* with 400 when its rows exceed the key's max_addresses_per_request, with
\* no categorization or USPS call made and addresses_processed unchanged;
\* with at most that many rows (the cap included) it goes on to processing.
C16_BatchCap ==
    \A t \in Threads :
        ( /\ Done(t) /\ endpoint[t] = "batch_validate_addresses"
          /\ status[t] \notin {401, 429, 503, 403}
          /\ body[t].nfiles <= MAX_FILES /\ body[t].csv_ok )
           => IF body[t].records > API_KEYS[token[t]].max_addresses_per_request
                THEN /\ status[t] = 400
                     /\ business[t] \cap {"categorize", "usps"} = {}
                     /\ Counters(t).addresses_processed
                           = entry_stats[t].addresses_processed
                ELSE /\ status[t] \in {200, 500}
                     /\ "categorize" \in business[t]

\* The enterprise key's 5200 rows are refused after its 4800 rows went
\* through.
C16_Witness ==
    /\ Done(1) /\ token[1] = EnterpriseKey /\ status[1] = 400
    /\ body[1].records = 5200 /\ body[1].nfiles = 5
    /\ entry_stats[1].addresses_processed = 4800
    /\ Counters(1).addresses_processed = 4800

\* C17: a batch request whose USPS call fails for some records, and whose
\* try block raises nothing else, ends 200 with status 'completed'; its
\* usps_validated_addresses are exactly the records whose call did not
\* fail, in order, each with its own verdict; successful_requests is up by
\* one and failed_requests unchanged (requests one at a time); and
\* usps_successful <= usps_processed <= number of us_valid records.
C17_UspsPartialFailure ==
    \A t \in Threads :
        ( /\ Done(t) /\ endpoint[t] = "batch_validate_addresses"
          /\ status[t] \notin {401, 429, 503, 403, 400}
          /\ ~body[t].raised /\ body[t].available
          /\ \E i \in 1..Len(body[t].usps) : body[t].usps[i] = "raise" )
           => LET outs == body[t].usps
                  kept == {i \in 1..Len(outs) : outs[i] # "raise"}
                  res  == response[t].usps_results
              IN  /\ status[t] = 200
                  /\ response[t].kind = "batch"
                  /\ response[t].status = "completed"
                  /\ Len(res) = Cardinality(kept)
                  /\ \A j \in 1..Len(res) :
                        /\ res[j].row \in kept
                        /\ res[j].usps_valid = (outs[res[j].row] = "valid")
                        /\ j > 1 => res[j - 1].row < res[j].row
                  /\ response[t].usps_processed = Len(res)
                  /\ response[t].usps_successful <= response[t].usps_processed
                  /\ response[t].usps_processed <= response[t].us_valid
                  /\ response[t].us_valid = Len(outs)
                  /\ Counters(t).successful_requests
                        = entry_stats[t].successful_requests + 1
                  /\ Counters(t).failed_requests
                        = entry_stats[t].failed_requests

\* The first of two us_valid records fails at USPS, the second is validated.
C17_Witness ==
    /\ Done(1) /\ status[1] = 200 /\ response[1].kind = "batch"
    /\ body[1].available /\ body[1].usps = <<"raise", "valid">>
    /\ Len(response[1].usps_results) = 1
    /\ response[1].usps_results[1].row = 2
    /\ response[1].usps_successful = 1

\* C18: a request answered 401 (invalid key), 429 (rate limited) or 403
\* (feature not entitled) has invoked no operation of the validation
\* collaborators (name validation, address validation, categorization, CSV
\* parsing) at any point.
C18_GateShortCircuit ==
    \A t \in Threads :
        (Done(t) /\ status[t] \in {401, 429, 403}) => business[t] = {}

\* A registered key without the feature is refused at a validation route.
C18_Witness ==
    \E t \in Threads :
        /\ Done(t) /\ status[t] = 403 /\ Registered(t)
        /\ endpoint[t] \in {"validate_names", "validate_address",
                            "batch_validate_addresses"}
        /\ business[t] = {}

\* C19: the usage counters in the response of GET /api/usage-stats
\* ('lifetime_statistics') and of GET /api-info ('usage_statistics') are
\* the values usage_stats[key] had when the handler read them, whatever
\* other requests for the key do before the response is encoded.
C19_SnapshotIsCopy ==
    \A t \in Threads :
        (Done(t) /\ status[t] = 200
                 /\ response[t].kind \in {"usage", "api_info"})
           => response[t].stats = snapshot[t]

\* C20: requests one at a time; when verify_api_key has admitted a request
\* for key K at time now, request_counts[K] is the entries of the last 60
\* seconds followed by exactly one new entry equal to now, total_requests
\* of K is one more than at arrival, and the call returned current_usage =
\* pruned length + 1 and rate_limit = K's requests_per_minute.
C20_AdmitEffect ==
    \A t \in Threads :
        pc[t] = "handler"
           => LET k  == token[t]
                  rc == request_counts[k]
                  IsFresh(x) == now[t] - x < WindowUnits
              IN  /\ FreshPrior(t) < Limit(k)
                  /\ rc = Append(SelectSeq(PriorAdmits(t), IsFresh), now[t])
                  /\ Len(rc) = FreshPrior(t) + 1
                  /\ Counters(t).total_requests
                        = entry_stats[t].total_requests + 1
                  /\ current_usage[t] = FreshPrior(t) + 1
                  /\ rate_limit[t] = Limit(k)

\* An admission that found an earlier entry still inside the window.
C20_Witness ==
    \E t \in Threads :
        /\ pc[t] = "handler" /\ FreshPrior(t) >= 1
        /\ current_usage[t] = FreshPrior(t) + 1
        /\ Counters(t).total_requests >= 2

\* The entries of a list of timestamps that are less than 60 s old at T.
FreshAt(w, T) == LET IsFresh(x) == T - x < WindowUnits IN SelectSeq(w, IsFresh)

\* C21: requests one at a time; a request refused with 429 leaves in the
\* key's window exactly the earlier admissions that are still fresh (it
\* appends nothing) and leaves every usage counter as it found it; and a
\* request that finds fewer fresh admissions than the limit is admitted,
\* however many attempts were refused before it.
C21_RejectedLeavesNoTrace ==
    \A t \in Threads :
        (Done(t) /\ Registered(t))
           => /\ status[t] = 429
                 => /\ request_counts[token[t]]
                         = FreshAt(PriorAdmits(t), now[t])
                    /\ Counters(t) = entry_stats[t]
              /\ FreshPrior(t) < Limit(token[t]) => status[t] # 429

\* The demo key is admitted at 0, refused twice, and admitted again at
\* exactly 60 s.
C21_Witness ==
    /\ Done(1) /\ token[1] = DemoKey /\ status[1] = 200
    /\ rejected[DemoKey] >= 2
    /\ admitted[DemoKey][1] = 0 /\ now[1] = WindowUnits

\* C22: requests one at a time; from the limit comparison of a
\* verify_api_key call for key K evaluated at time now until its request is
\* answered, every timestamp ts in request_counts[K] has now - ts < 60 s:
\* what went stale since the previous call is gone before line 126 compares.
C22_WindowFresh ==
    \A t \in Threads :
        (Registered(t) /\ pc[t] \notin {"idle", "prune_iter", "prune_store"})
           => \A i \in DOMAIN request_counts[token[t]] :
                 now[t] - request_counts[token[t]][i] < WindowUnits

\* At the comparison at 118 s, of the admissions at 0 and at 59 s only the
\* second is left.
C22_Witness ==
    /\ pc[1] = "check_limit" /\ token[1] = PremiumKey
    /\ now[1] = 2 * (WINDOW - 1) * Resolution
    /\ admitted[PremiumKey] = <<0, (WINDOW - 1) * Resolution>>
    /\ request_counts[PremiumKey] = <<(WINDOW - 1) * Resolution>>

\* C23: for every key, the timestamps of request_counts[key] are in
\* non-decreasing order in every reachable state, whatever the order in
\* which concurrent verify_api_key calls read `now` and append.
C23_WindowOrdered ==
    \A k \in DOMAIN request_counts :
        \A i, j \in DOMAIN request_counts[k] :
            i < j => request_counts[k][i] <= request_counts[k][j]

\* Number of entries of the list w that equal x.
Count(w, x) == Cardinality({i \in DOMAIN w : w[i] = x})

\* C24: requests one at a time; an admitted request adds its own entry to
\* the window even when earlier admissions carry the same timestamp (the
\* window then holds that timestamp once more than before), and no more
\* than L requests with one identical timestamp are admitted for a key with
\* limit L.
C24_NoDeduplication ==
    /\ \A t \in Threads :
          pc[t] = "handler"
             => Count(request_counts[token[t]], now[t])
                   = Count(PriorAdmits(t), now[t]) + 1
    /\ \A k \in DOMAIN API_KEYS : \A i \in DOMAIN admitted[k] :
          Count(admitted[k], admitted[k][i]) <= Limit(k)

\* Two requests of the premium key at time 0 made two entries; the third at
\* time 0 is refused.
C24_Witness ==
    /\ Done(1) /\ token[1] = PremiumKey /\ status[1] = 429 /\ now[1] = 0
    /\ Limit(PremiumKey) = 2
    /\ request_counts[PremiumKey] = <<0, 0>>

\* The request t has its own timestamp at the end of its key's window, on
\* top of the earlier fresh admissions, and has raised total_requests by 1.
Consumed(t) ==
    LET rc == request_counts[token[t]] IN
      /\ Len(rc) = FreshPrior(t) + 1
      /\ rc[Len(rc)] = now[t]
      /\ Counters(t).total_requests = entry_stats[t].total_requests + 1

\* C25 as stated: requests one at a time; a request refused for a missing
\* feature (403) has consumed a rate-limit slot and counted in
\* total_requests, and total_requests has been incremented before any
\* rejection of a request with a registered key (429, 503, 403, 400, 500).
C25_CountedBeforeAnyRejection ==
    \A t \in Threads :
        (Done(t) /\ Registered(t))
           => /\ status[t] = 403 => Consumed(t)
              /\ status[t] \in {429, 503, 403, 400, 500}
                    => Counters(t).total_requests
                          = entry_stats[t].total_requests + 1

\* C25 amended: requests one at a time; a request that a handler rejects
\* (503, 403, 400, 500) has consumed a rate-limit slot and counted in
\* total_requests by then; a request that verify_api_key itself rejects
\* with 429 has not: its total_requests is unchanged.
C25_CountedBeforeHandlerRejection ==
    \A t \in Threads :
        (Done(t) /\ Registered(t))
           => /\ status[t] \in {503, 403, 400, 500} => Consumed(t)
              /\ status[t] = 429
                    => Counters(t).total_requests
                          = entry_stats[t].total_requests

\* The demo key's request to the batch route is answered 403 with its slot
\* and its attempt already counted.
C25_Witness ==
    \E t \in Threads :
        /\ Done(t) /\ token[t] = DemoKey /\ status[t] = 403
        /\ endpoint[t] = "batch_validate_addresses"
        /\ Consumed(t)

\* C27: under every interleaving of concurrent verify_api_key calls, every
\* admitted timestamp that no call can have found stale yet (it is less than
\* 60 s older than the latest reading of the clock) is in its key's window,
\* as often as it was admitted.
C27_NoLostTimestamp ==
    \A k \in DOMAIN request_counts : \A i \in DOMAIN admitted[k] :
        clock - admitted[k][i] < WindowUnits
           => Count(request_counts[k], admitted[k][i])
                 = Count(admitted[k], admitted[k][i])

ValidationRoutes == {"validate_names", "validate_address",
                     "batch_validate_addresses"}

\* C26: requests one at a time; while validation_service is not
\* initialized, every admitted request to a validation route is answered
\* 503, whether or not its key has the route's feature, with no collaborator
\* operation invoked and with successful_requests, failed_requests,
\* names_processed and addresses_processed unchanged.
C26_ServiceUnavailable ==
    \A t \in Threads :
        ( /\ Done(t) /\ Registered(t) /\ status[t] # 429
          /\ endpoint[t] \in ValidationRoutes
          /\ ~validation_service )
           => /\ status[t] = 503
              /\ business[t] = {}
              /\ \A c \in {"successful_requests", "failed_requests",
                           "names_processed", "addresses_processed"} :
                    Counters(t)[c] = entry_stats[t][c]

\* The demo key, which lacks batch_processing, gets 503 and not 403 from the
\* batch route while the service is down.
C26_Witness ==
    \E t \in Threads :
        /\ Done(t) /\ token[t] = DemoKey /\ status[t] = 503
        /\ endpoint[t] = "batch_validate_addresses"
        /\ ~validation_service

\* C28: for every key successful_requests + failed_requests <= total_requests
\* in every reachable state, and a finished request has raised at most one
\* of successful_requests and failed_requests of its key (requests one at a
\* time), also when an exception follows the increment of the success
\* counter.
C28_Accounting ==
    /\ \A k \in DOMAIN API_KEYS :
          StatsOf(k).successful_requests + StatsOf(k).failed_requests
             <= StatsOf(k).total_requests
    /\ \A t \in Threads :
          (Done(t) /\ Registered(t))
             => (Counters(t).successful_requests
                    - entry_stats[t].successful_requests)
                + (Counters(t).failed_requests
                    - entry_stats[t].failed_requests) <= 1

\* The window of key k (empty while request_counts has no entry for it).
WindowOf(k) == IF k \in DOMAIN request_counts THEN request_counts[k] ELSE << >>

\* The request task t takes the step.
Moved(t) == pc'[t] # pc[t] \/ idx'[t] # idx[t]

C30_RetryAfterSuffices ==
    \A t \in Threads :
        ( /\ Done(t) /\ Registered(t)
          /\ \E r \in refused[token[t]] :
                /\ now[t] = r + RETRY_AFTER * Resolution
                /\ \A i \in DOMAIN PriorAdmits(t) : PriorAdmits(t)[i] <= r )
           => status[t] # 429

\* The demo key, admitted at 0 and refused at 59 s, is admitted at 119 s.
C30_Witness ==
    /\ Done(1) /\ token[1] = DemoKey /\ status[1] = 200
    /\ (WINDOW - 1) * Resolution \in refused[DemoKey]
    /\ now[1] = (WINDOW - 1) * Resolution + RETRY_AFTER * Resolution
    /\ admitted[DemoKey] = <<0, now[1]>>

\* C31: whenever no _make_request call of the client is under way, its
\* total_requests equals successful_requests + failed_requests: every call
\* has counted once in total_requests and in exactly one of the other two,
\* whatever session.request answered.
C31_ClientAccounting ==
    client_pc = "idle"
       => client.total_requests
             = client.successful_requests + client.failed_requests

====
